---- MODULE Spec2Model ----
(***************************************************************************)
(* State-machine model of the tiered filing ingestion engine of            *)
(* edgar-sec-parser: the tier router (config/settings.py,                   *)
(* core/tiered_processor.py), the persistence layer (storage/database.py), *)
(* the dead-letter queue (storage/dead_letter_queue.py) and the            *)
(* orchestration loops (core/tiered_processor.py, main.py).                *)
(*                                                                         *)
(* Conventions.                                                            *)
(*  - A table is a set of rows; a row is a record holding the columns the  *)
(*    managers read and write.  Columns are named as the managers name     *)
(*    them (Filing.id, DeadLetterQueue.filing_id, ...); storage/models.py   *)
(*    declares some of them under other names (Filing.filing_id), which    *)
(*    the model does not follow.                                           *)
(*  - Sizes are megabytes.  The code only compares a size with integer     *)
(*    constants, so integer sizes on and around every constant reach every *)
(*    branch.                                                              *)
(*  - Time is in hours since the start of the run (datetime.utcnow()).     *)
(*  - A transaction is atomic: a manager method either commits all of its  *)
(*    writes or, on rollback or on close without commit, none of them.     *)
(*  - None is NoId for ids, NoTime for timestamps and "none" for strings.  *)
(***************************************************************************)
EXTENDS Integers, Sequences, FiniteSets, TLC

VARIABLES
  settings,            \* config/settings.py: the Settings singleton (thresholds)
  catalog,             \* the size SEC reports for each accession number
  filings,             \* table filings
  dlq,                 \* table dead_letter_queue
  processing_results,  \* table processing_results
  fund_metadata,       \* table fund_metadata
  now,                 \* datetime.utcnow(), in hours
  pc,                  \* "idle", or the loop the orchestrator is inside
  run,                 \* locals of the loop in progress
  last                 \* the last completed call and what it returned

vars == <<settings, catalog, filings, dlq, processing_results, fund_metadata, now, pc, run, last>>

----------------------------------------------------------------------------
(* Bounds of the model *)

MaxTicks == 2             \* the clock advances at most this many times
MaxAttempts == 5          \* the queue alone: attempt_count is explored up to this value
MaxPipelineAttempts == 2  \* the orchestrator: attempt_count is explored up to this value
MaxNightAttempts == 2     \* the night batch: attempt_count is explored up to this value
MaxBatch == 2             \* longest list handed to process_batch
MaxNightBatch == 2        \* largest batch_size handed to get_night_batch
MaxSize == 120            \* the tier router is explored on the sizes 0..MaxSize
MaxRetries == 3           \* largest retries argument handed to the HTTP client
MaxClock == 5             \* the limiter is explored over this many clock steps
MaxRequests == 2          \* requests one caller sends through the limiter
MaxTables == 12  \* the most tables a page carries

(* Program constants *)
DefaultMaxAttempts == 5
DefaultNightMaxSize == 50
DefaultSmall == 10
DefaultMedium == 50
DefaultLarge == 100
DefaultDaysToKeep == 90
DefaultRetries == 3
DefaultRateLimitDelay == 2  \* settings.rate_limit_delay, 0.1 s, in clock steps of 0.05 s
LimitedTables == 10  \* the slice [:10] of the limited tier

NoId == 0
NoTime == -1

Min(a, b) == IF a <= b THEN a ELSE b
Max(a, b) == IF a >= b THEN a ELSE b

RECURSIVE Pow2(_)
Pow2(n) == IF n <= 0 THEN 1 ELSE 2 * Pow2(n - 1)

----------------------------------------------------------------------------
(* Input domains *)

\* The accession numbers SEC publishes
Accessions == DOMAIN catalog
\* Reported sizes: one per tier of the default thresholds
Sizes == {2, 30, 60, 120}
\* Sizes handed to the queue directly: one in every interval the scoring
\* eligibility rules tell apart (25, 50, 100), small and large priorities
QueueSizes == {2, 20, 40, 60, 120}
\* The queued failures of the night batch: two sizes and two failure types,
\* enough for entries to differ in priority, in size and in attempts
NightSizes == {2, 40}
NightFailureTypes == {"network", "timeout"}
\* Thresholds a deployment may configure through the environment
ThresholdValues == {1, 10, 11, 50, 100}
FailureTypes == {"timeout", "memory", "network", "parsing", "processing", "file_too_large"}
\* One failure type of every kind the scoring functions tell apart
QueueFailureTypes == {"memory", "network", "parsing", "file_too_large"}
Tiers == {"standard", "limited", "minimal"}

----------------------------------------------------------------------------
(* Tier router *)

\* The router with inclusive comparisons: a size on a threshold moves up a tier
_determine_processing_tier_inclusive(s, file_size_mb) ==
  IF file_size_mb >= s.LARGE_FILE_THRESHOLD THEN "dead_letter"
  ELSE IF file_size_mb >= s.MEDIUM_FILE_THRESHOLD THEN "minimal"
  ELSE IF file_size_mb >= s.SMALL_FILE_THRESHOLD THEN "limited"
  ELSE "standard"

\* TieredProcessor._determine_processing_tier
_determine_processing_tier(s, file_size_mb) ==
  IF file_size_mb > s.LARGE_FILE_THRESHOLD THEN "dead_letter"
  ELSE IF file_size_mb > s.MEDIUM_FILE_THRESHOLD THEN "minimal"
  ELSE IF file_size_mb > s.SMALL_FILE_THRESHOLD THEN "limited"
  ELSE "standard"

\* Settings.determine_processing_tier
determine_processing_tier(s, file_size_mb) ==
  IF file_size_mb > s.LARGE_FILE_THRESHOLD THEN "dead_letter"
  ELSE IF file_size_mb > s.MEDIUM_FILE_THRESHOLD THEN "minimal"
  ELSE IF file_size_mb > s.SMALL_FILE_THRESHOLD THEN "limited"
  ELSE "standard"

\* Settings.__post_init__: the threshold validation
\* A validation that lets the small and medium thresholds coincide
post_init_ok_not_strict(s) ==
  0 < s.SMALL_FILE_THRESHOLD
  /\ s.SMALL_FILE_THRESHOLD <= s.MEDIUM_FILE_THRESHOLD
  /\ s.MEDIUM_FILE_THRESHOLD < s.LARGE_FILE_THRESHOLD

post_init_ok(s) ==
  0 < s.SMALL_FILE_THRESHOLD
  /\ s.SMALL_FILE_THRESHOLD < s.MEDIUM_FILE_THRESHOLD
  /\ s.MEDIUM_FILE_THRESHOLD < s.LARGE_FILE_THRESHOLD

DefaultSettings ==
  [SMALL_FILE_THRESHOLD |-> DefaultSmall,
   MEDIUM_FILE_THRESHOLD |-> DefaultMedium,
   LARGE_FILE_THRESHOLD |-> DefaultLarge]

----------------------------------------------------------------------------
(* Dead-letter queue: the private scoring functions *)

\* The eligibility rules without the memory rule
_calculate_retry_eligibility_no_memory_rule(attempt_count, file_size_mb, failure_type) ==
  IF attempt_count >= 5 THEN FALSE
  ELSE IF file_size_mb > 100 THEN FALSE
  ELSE IF file_size_mb > 50 /\ attempt_count >= 2 THEN FALSE
  ELSE IF failure_type = "parsing" /\ attempt_count >= 3 THEN FALSE
  ELSE TRUE

\* DeadLetterQueueManager._calculate_retry_eligibility
_calculate_retry_eligibility(attempt_count, file_size_mb, failure_type) ==
  IF attempt_count >= 5 THEN FALSE
  ELSE IF file_size_mb > 100 THEN FALSE
  ELSE IF file_size_mb > 50 /\ attempt_count >= 2 THEN FALSE
  ELSE IF failure_type = "memory" /\ file_size_mb > 25 THEN FALSE
  ELSE IF failure_type = "parsing" /\ attempt_count >= 3 THEN FALSE
  ELSE TRUE

\* DeadLetterQueueManager._calculate_backoff_hours
_calculate_backoff_hours(attempt_count) ==
  Min(24 * Pow2(attempt_count - 1), 192)

\* DeadLetterQueueManager._suggest_tier
_suggest_tier(attempt_count, file_size_mb, failure_type) ==
  IF failure_type = "memory" \/ file_size_mb > 30 THEN "minimal"
  ELSE IF attempt_count >= 2 \/ file_size_mb > 15 THEN "limited"
  ELSE "standard"

\* DeadLetterQueueManager._calculate_priority
_calculate_priority(file_size_mb, failure_type) ==
  LET p0 == 1
      p1 == IF file_size_mb < 5 THEN p0 + 2
            ELSE IF file_size_mb < 15 THEN p0 + 1
            ELSE p0
      p2 == IF failure_type \in {"network", "temporary"} THEN p1 + 1
            ELSE IF failure_type \in {"memory", "timeout"} THEN p1 - 1
            ELSE p1
  IN Max(1, Min(5, p2))

\* The clock is observed in steps of the shortest backoff
TickHours == _calculate_backoff_hours(1)

----------------------------------------------------------------------------
(* The database seen by one manager call: the four tables as one record *)

DB == [filings |-> filings, dlq |-> dlq,
       processing_results |-> processing_results,
       fund_metadata |-> fund_metadata]

FilingById(d, id) == {f \in d.filings : f.id = id}
FilingByAccession(d, acc) == {f \in d.filings : f.accession_number = acc}
DlqByFiling(d, id) == {e \in d.dlq : e.filing_id = id}

\* The autoincrement primary key of the next row of table T
NextId(T) == 1 + Cardinality(T)

\* The row a query's .first() returns, for a query known to be non-empty
First(S) == CHOOSE x \in S : TRUE

\* Replace row old by row new in a table
Replace(T, old, new) == (T \ {old}) \cup {new}

\* Constraints the schema puts on dead_letter_queue at commit:
\* filing_id NOT NULL, UNIQUE, FOREIGN KEY filings
dlq_constraints_ok(d) ==
  /\ \A e \in d.dlq : e.filing_id # NoId /\ FilingById(d, e.filing_id) # {}
  /\ \A e1, e2 \in d.dlq : e1.filing_id = e2.filing_id => e1 = e2

\* The update of an existing entry without "existing.attempt_count += 1"
add_filing_existing_same_count(e, file_size_mb, failure_type, t) ==
  LET n == e.attempt_count
      elig == _calculate_retry_eligibility(n, file_size_mb, failure_type)
  IN [e EXCEPT !.failure_type = failure_type,
               !.file_size_mb = file_size_mb,
               !.retry_eligible = elig,
               !.next_retry = IF elig THEN t + _calculate_backoff_hours(n) ELSE NoTime,
               !.suggested_tier = IF elig THEN _suggest_tier(n, file_size_mb, failure_type)
                                  ELSE "none"]

\* DeadLetterQueueManager.add_filing, "if existing": the entry updated in place
add_filing_existing(e, file_size_mb, failure_type, t) ==
  LET n == e.attempt_count + 1
      elig == _calculate_retry_eligibility(n, file_size_mb, failure_type)
  IN [e EXCEPT !.attempt_count = n,
               !.failure_type = failure_type,
               !.file_size_mb = file_size_mb,
               !.retry_eligible = elig,
               !.next_retry = IF elig THEN t + _calculate_backoff_hours(n) ELSE NoTime,
               !.suggested_tier = IF elig THEN _suggest_tier(n, file_size_mb, failure_type)
                                  ELSE "none"]

\* DeadLetterQueueManager.add_filing, "else": the new DLQModel row
add_filing_new(d, filing_id, file_size_mb, failure_type, t) ==
  LET elig == _calculate_retry_eligibility(1, file_size_mb, failure_type)
  IN [id |-> NextId(d.dlq),
      filing_id |-> filing_id,
      failure_type |-> failure_type,
      file_size_mb |-> file_size_mb,
      attempt_count |-> 1,
      retry_eligible |-> elig,
      next_retry |-> IF elig THEN t + 24 ELSE NoTime,
      suggested_tier |-> IF elig THEN _suggest_tier(1, file_size_mb, failure_type) ELSE "none",
      priority |-> _calculate_priority(file_size_mb, failure_type),
      created_at |-> t]

\* DeadLetterQueueManager.add_filing, the writes before session.commit()
add_filing_writes(d, filing_id, file_size_mb, failure_type, t) ==
  LET existing == DlqByFiling(d, filing_id)
      dlq1 == IF existing # {}
              THEN Replace(d.dlq, First(existing),
                           add_filing_existing(First(existing), file_size_mb, failure_type, t))
              ELSE d.dlq \cup {add_filing_new(d, filing_id, file_size_mb, failure_type, t)}
      fs == FilingById(d, filing_id)
      filings1 == IF fs # {}
                  THEN Replace(d.filings, First(fs),
                               [First(fs) EXCEPT !.processing_status = "dead_letter"])
                  ELSE d.filings
  IN [d EXCEPT !.dlq = dlq1, !.filings = filings1]

\* DeadLetterQueueManager.add_filing: commit, or rollback and return False
add_filing(d, filing_id, file_size_mb, failure_type, t) ==
  LET w == add_filing_writes(d, filing_id, file_size_mb, failure_type, t)
  IN IF dlq_constraints_ok(w) THEN [db |-> w, ok |-> TRUE]
     ELSE [db |-> d, ok |-> FALSE]

\* DeadLetterQueueManager.mark_as_processed, the changes made to the session
mark_as_processed_writes(d, filing_id, success, t) ==
  LET existing == DlqByFiling(d, filing_id)
      e == First(existing)
      n == e.attempt_count + 1
      elig == _calculate_retry_eligibility(n, e.file_size_mb, e.failure_type)
      updated == [e EXCEPT !.attempt_count = n,
                           !.retry_eligible = elig,
                           !.next_retry = IF elig THEN t + _calculate_backoff_hours(n)
                                          ELSE NoTime]
  IN IF existing = {} THEN d
     ELSE IF success THEN [d EXCEPT !.dlq = d.dlq \ {e}]
     ELSE [d EXCEPT !.dlq = Replace(d.dlq, e, updated)]

\* Session.__exit__ of "with self.db.get_session() as session": the session
\* is closed; nothing in the block called session.commit(), so the pending
\* changes w are discarded and the database stays as it was (d).
close_session(d, w) == d

\* DeadLetterQueueManager.mark_as_processed
mark_as_processed(d, filing_id, success, t) ==
  [db |-> close_session(d, mark_as_processed_writes(d, filing_id, success, t)),
   ok |-> TRUE]

\* The ORDER BY without attempt_count: priority, size, then created_at
night_order_without_attempts(e1, e2) ==
  \/ e1.priority > e2.priority
  \/ /\ e1.priority = e2.priority
     /\ \/ e1.file_size_mb < e2.file_size_mb
        \/ /\ e1.file_size_mb = e2.file_size_mb
           /\ e1.created_at <= e2.created_at

\* The ORDER BY of get_night_batch: e1 may come before e2
night_order(e1, e2) ==
  \/ e1.priority > e2.priority
  \/ /\ e1.priority = e2.priority
     /\ \/ e1.file_size_mb < e2.file_size_mb
        \/ /\ e1.file_size_mb = e2.file_size_mb
           /\ \/ e1.attempt_count < e2.attempt_count
              \/ /\ e1.attempt_count = e2.attempt_count
                 /\ e1.created_at <= e2.created_at

\* The WHERE of get_night_batch (a NULL next_retry compares false), after the
\* inner join with filings
night_filter(d, e, max_file_size_mb, t) ==
  /\ FilingById(d, e.filing_id) # {}
  /\ e.retry_eligible = TRUE
  /\ e.next_retry # NoTime /\ e.next_retry <= t
  /\ e.attempt_count < DefaultMaxAttempts
  /\ e.file_size_mb <= max_file_size_mb

\* One dict of the list get_night_batch returns
night_dict(e) ==
  [filing_id |-> e.filing_id,
   file_size_mb |-> e.file_size_mb,
   attempt_count |-> e.attempt_count,
   suggested_tier |-> IF e.suggested_tier = "none" THEN "limited" ELSE e.suggested_tier,
   failure_type |-> e.failure_type,
   priority |-> e.priority]

\* DeadLetterQueueManager.get_night_batch: every list the query can return
\* (rows equal on all four sort keys come in either order)
get_night_batch(d, batch_size, max_file_size_mb, t) ==
  LET Q == {e \in d.dlq : night_filter(d, e, max_file_size_mb, t)}
      n == Cardinality(Q)
      ordered == {s \in [1..n -> Q] :
                    /\ \A i, j \in 1..n : i # j => s[i] # s[j]
                    /\ \A i, j \in 1..n : i < j => night_order(s[i], s[j])}
  IN {[i \in 1..Min(n, batch_size) |-> night_dict(s[i])] : s \in ordered}

----------------------------------------------------------------------------
(* Persistence layer *)

\* An upsert that never looks the accession number up and always inserts
create_or_update_filing_always_insert(d, filing_meta, db_ok) ==
  LET new_filing == [id |-> NextId(d.filings),
                     accession_number |-> filing_meta.accession_number,
                     file_size_mb |-> filing_meta.file_size_mb,
                     processing_status |-> "pending",
                     processing_tier |-> "none"]
  IN IF ~db_ok THEN [db |-> d, id |-> NoId, raised |-> TRUE]
     ELSE [db |-> [d EXCEPT !.filings = d.filings \cup {new_filing}],
           id |-> new_filing.id, raised |-> FALSE]

\* DatabaseManager.create_or_update_filing; db_ok = FALSE is a SQLAlchemyError,
\* rolled back and re-raised
create_or_update_filing(d, filing_meta, db_ok) ==
  LET existing == FilingByAccession(d, filing_meta.accession_number)
      f == First(existing)
      new_filing == [id |-> NextId(d.filings),
                     accession_number |-> filing_meta.accession_number,
                     file_size_mb |-> filing_meta.file_size_mb,
                     processing_status |-> "pending",
                     processing_tier |-> "none"]
  IN IF ~db_ok THEN [db |-> d, id |-> NoId, raised |-> TRUE]
     ELSE IF existing # {}
     THEN [db |-> [d EXCEPT !.filings =
                     Replace(d.filings, f, [f EXCEPT !.file_size_mb = filing_meta.file_size_mb])],
           id |-> f.id, raised |-> FALSE]
     ELSE [db |-> [d EXCEPT !.filings = d.filings \cup {new_filing}],
           id |-> new_filing.id, raised |-> FALSE]

\* DatabaseManager.update_filing_processing_status
update_filing_processing_status(d, filing_id, tier, status) ==
  LET fs == FilingById(d, filing_id)
      f == First(fs)
  IN IF fs = {} THEN d
     ELSE [d EXCEPT !.filings =
             Replace(d.filings, f, [f EXCEPT !.processing_tier = tier,
                                             !.processing_status = status])]

\* A schema without the unique constraints on the result tables
result_constraints_missing(d) == TRUE

\* Constraints the schema puts on the result tables at commit:
\* fund_metadata.filing_id UNIQUE, processing_results.filing_id UNIQUE
result_constraints_ok(d) ==
  /\ \A r1, r2 \in d.processing_results : r1.filing_id = r2.filing_id => r1 = r2
  /\ \A m1, m2 \in d.fund_metadata : m1.filing_id = m2.filing_id => m1 = m2

\* DatabaseManager.save_processing_result, the writes before session.commit()
save_processing_result_writes(d, filing_id, result, tier) ==
  LET f == First(FilingById(d, filing_id))
      filings1 == Replace(d.filings, f,
                    [f EXCEPT !.processing_status =
                                 IF result.success THEN "completed" ELSE "failed",
                              !.processing_tier = tier])
      meta1 == IF result.fund_metadata
               THEN d.fund_metadata \cup
                      {[id |-> NextId(d.fund_metadata), filing_id |-> filing_id]}
               ELSE d.fund_metadata
      results1 == d.processing_results \cup
                    {[id |-> NextId(d.processing_results), filing_id |-> filing_id,
                      success |-> result.success]}
  IN [d EXCEPT !.filings = filings1, !.fund_metadata = meta1,
               !.processing_results = results1]

\* DatabaseManager.save_processing_result: commit, or rollback and return False;
\* db_ok = FALSE is any other SQLAlchemyError raised inside the transaction
save_processing_result(d, filing_id, result, tier, db_ok) ==
  IF FilingById(d, filing_id) = {} THEN [db |-> d, ok |-> FALSE]
  ELSE LET w == save_processing_result_writes(d, filing_id, result, tier)
       IN IF db_ok /\ result_constraints_ok(w) THEN [db |-> w, ok |-> TRUE]
          ELSE [db |-> d, ok |-> FALSE]

\* What can go wrong inside save_processing_result once the filing is found:
\* nothing; a SQLAlchemyError from the session ("db"); or an exception of
\* another class ("other"), such as the TypeError a row constructor raises on a
\* keyword that is not a column of its model
SaveFaults == {"none", "db", "other"}

\* What the caller of DatabaseManager.save_processing_result sees.  Only
\* SQLAlchemyError is caught: any other exception leaves through the finally
\* clause, whose session.close() discards the pending writes.  (In
\* process_filing and process_night_batch that exception lands in the same
\* except-clause as one raised by the extraction, the parse outcome "error".)
save_processing_result_call(d, filing_id, result, tier, fault) ==
  LET sv == save_processing_result(d, filing_id, result, tier, fault = "none")
  IN IF FilingById(d, filing_id) # {} /\ fault = "other"
     THEN [db |-> d, ok |-> FALSE, raised |-> TRUE]
     ELSE [db |-> sv.db, ok |-> sv.ok, raised |-> FALSE]

\* The retention periods a caller passes to cleanup_old_data: 0 (clean
\* everything) or the default
DaysToKeep == {0, DefaultDaysToKeep}

\* created_at / updated_at < utcnow() - days_to_keep: every stored row was
\* written before the call and none is older than the explored clock, which
\* stays far below the default retention
past_cutoff(days_to_keep) == days_to_keep = 0

\* The foreign keys filings.id <- child.filing_id of the three child tables
foreign_keys_ok(d) ==
  LET ids == {f.id : f \in d.filings}
  IN /\ \A r \in d.processing_results : r.filing_id \in ids
     /\ \A m \in d.fund_metadata : m.filing_id \in ids
     /\ \A e \in d.dlq : e.filing_id \in ids

\* DatabaseManager.cleanup_old_data: two bulk DELETE statements, which go to
\* the database as they are (the relationship cascades of the Filing class
\* act on session.delete of a loaded object only, and no foreign key declares
\* ON DELETE CASCADE).  Where the database enforces foreign keys a DELETE of
\* a filing that still has child rows is refused, a SQLAlchemyError: rollback
\* and {}.  Where it does not (SQLite without the foreign_keys pragma, which
\* the code never sets) the filings go and the child rows stay.
cleanup_old_data(d, days_to_keep, fk_enforced) ==
  LET results1 == {r \in d.processing_results : ~past_cutoff(days_to_keep)}
      old_filings == {f \in d.filings :
                        /\ past_cutoff(days_to_keep)
                        /\ f.processing_status \in {"completed", "failed"}}
      w == [d EXCEPT !.processing_results = results1,
                     !.filings = d.filings \ old_filings]
      refused == \E f \in old_filings :
                   \/ \E r \in results1 : r.filing_id = f.id
                   \/ \E m \in d.fund_metadata : m.filing_id = f.id
                   \/ \E e \in d.dlq : e.filing_id = f.id
  IN IF fk_enforced /\ refused
     THEN [db |-> d, ok |-> FALSE, filings |-> 0]
     ELSE [db |-> w, ok |-> TRUE, filings |-> Cardinality(old_filings)]

----------------------------------------------------------------------------
(* Orchestrator *)

\* What the parse phase can do: return a result dict, or raise.  A returned
\* dict carries fund metadata only with success = true: the integrated parser
\* takes metadata from the sub-parsers that succeeded, and the legacy
\* extraction always returns success = true.
ParseOutcomes ==
  {r \in {[kind |-> "result", success |-> sc, fund_metadata |-> fm] : sc, fm \in BOOLEAN} :
     r.fund_metadata => r.success}
  \cup {[kind |-> k, success |-> FALSE, fund_metadata |-> FALSE] :
          k \in {"timeout", "memory", "error"}}

\* The faults and outcomes one process_filing call can meet: the upsert
\* raises; or the parse phase raises; or it returns and the save commits or not
ProcessEnvs ==
  {[upsert_ok |-> FALSE, parse |-> p, save_ok |-> TRUE] :
     p \in {q \in ParseOutcomes : q.kind = "error"}}
  \cup {[upsert_ok |-> TRUE, parse |-> p, save_ok |-> TRUE] :
           p \in {q \in ParseOutcomes : q.kind # "result"}}
  \cup {[upsert_ok |-> TRUE, parse |-> p, save_ok |-> ok] :
           p \in {q \in ParseOutcomes : q.kind = "result"}, ok \in BOOLEAN}

\* The metas a caller can build: an accession number with its reported size
FilingMetas == {[accession_number |-> a, file_size_mb |-> catalog[a]] : a \in Accessions}

\* The size a caller of the queue passes for filing id: the size of its row
SizeOfFiling(id) ==
  IF \E f \in filings : f.id = id THEN (CHOOSE f \in filings : f.id = id).file_size_mb
  ELSE CHOOSE sz \in Sizes : TRUE

\* TieredProcessor._process_with_tier: ValueError on an unknown tier, else the
\* outcome of the extraction under the tier's timeout.  As written the
\* with-statement asks the TimeoutManager object for timeout_context, which
\* only the module timeout_manager defines: that lookup raises AttributeError,
\* the outcome "error".  The other outcomes are those of the extraction run
\* under timeout_manager.timeout_context.
_process_with_tier(tier, parse) ==
  IF tier \notin Tiers
  THEN [kind |-> "error", success |-> FALSE, fund_metadata |-> FALSE]
  ELSE parse

\* The result dict of a call, and the add_filing calls that committed
Outcome(d, success, filing_id, tier, error_type, saved, adds) ==
  [db |-> d,
   result |-> [success |-> success, filing_id |-> filing_id,
               processing_tier |-> tier, error_type |-> error_type],
   saved |-> saved,
   adds |-> adds]

\* TieredProcessor._handle_timeout_error, _handle_memory_error,
\* _handle_general_error: add_filing with the failure type of the handler
_handle_error(d, filing_id, filing_meta, tier, failure_type, t) ==
  LET a == add_filing(d, filing_id, filing_meta.file_size_mb, failure_type, t)
  IN Outcome(a.db, FALSE, filing_id, tier, failure_type, FALSE,
             IF a.ok THEN <<filing_id>> ELSE <<>>)

\* TieredProcessor._handle_dead_letter_filing
_handle_dead_letter_filing(d, filing_id, file_size_mb, t) ==
  LET a == add_filing(d, filing_id, file_size_mb, "file_too_large", t)
  IN Outcome(a.db, FALSE, filing_id, "dead_letter", "none", FALSE,
             IF a.ok THEN <<filing_id>> ELSE <<>>)

\* TieredProcessor.process_filing
process_filing(d, s, filing_meta, env, t) ==
  LET u == create_or_update_filing(d, filing_meta, env.upsert_ok)
      tier == _determine_processing_tier(s, filing_meta.file_size_mb)
      d1 == update_filing_processing_status(u.db, u.id, tier, "processing")
      p == _process_with_tier(tier, env.parse)
      sv == save_processing_result(d1, u.id, p, tier, env.save_ok)
  IN IF u.raised
     THEN _handle_error(u.db, NoId, filing_meta, "unknown", "processing", t)
     ELSE IF tier = "dead_letter"
     THEN _handle_dead_letter_filing(d1, u.id, filing_meta.file_size_mb, t)
     ELSE IF p.kind = "timeout"
     THEN _handle_error(d1, u.id, filing_meta, tier, "timeout", t)
     ELSE IF p.kind = "memory"
     THEN _handle_error(d1, u.id, filing_meta, tier, "memory", t)
     ELSE IF p.kind = "error"
     THEN _handle_error(d1, u.id, filing_meta, tier, "processing", t)
     ELSE Outcome(sv.db, p.success, u.id, tier,
                  IF p.success THEN "none" ELSE "parsing", sv.ok, <<>>)

\* What _download_filing_content can do: return the text, return "" after the
\* retries failed, or return None without any request when the meta has no URL
Downloads == {"content", "empty", "no_url"}

\* The cases of one iteration of process_batch: the download returns the text
\* and process_filing runs; or it returns nothing and the upsert commits or raises
BatchCases ==
  {[download |-> "content", env |-> env] : env \in ProcessEnvs}
  \cup {[download |-> dl, env |-> env] :
           dl \in Downloads \ {"content"},
           env \in {e \in ProcessEnvs : e.parse.kind = "error"}}

\* The cases of one iteration of process_night_batch: the download returns the
\* text and the extraction runs (no upsert); or it returns nothing
NightCases ==
  {[download |-> "content", env |-> env] : env \in {e \in ProcessEnvs : e.upsert_ok}}
  \cup {[download |-> "empty", env |-> env] :
           env \in {e \in ProcessEnvs : e.upsert_ok /\ e.parse.kind = "error"}}

\* One iteration of the loop of TieredProcessor.process_batch
process_batch_item(d, s, filing_meta, download, env, t) ==
  LET u == create_or_update_filing(d, filing_meta, env.upsert_ok)
      a == add_filing(u.db, u.id, filing_meta.file_size_mb, "network", t)
  IN IF download = "content" THEN process_filing(d, s, filing_meta, env, t)
     ELSE IF u.raised
     THEN Outcome(u.db, FALSE, NoId, "none", "exception", FALSE, <<>>)
     ELSE Outcome(a.db, FALSE, u.id, "none", "download", FALSE,
                  IF a.ok THEN <<u.id>> ELSE <<>>)

\* One iteration of the loop of TieredProcessor.process_night_batch
process_night_item(d, filing_data, download, env, t) ==
  LET p == _process_with_tier(filing_data.suggested_tier, env.parse)
      sv == save_processing_result(d, filing_data.filing_id, p,
                                   filing_data.suggested_tier, env.save_ok)
      ok == download = "content" /\ p.kind = "result" /\ p.success
      d1 == IF ok THEN sv.db ELSE d
      m == mark_as_processed(d1, filing_data.filing_id, ok, t)
  IN [db |-> m.db, success |-> ok, saved |-> ok /\ sv.ok,
      marked |-> [filing_id |-> filing_data.filing_id, success |-> ok]]

----------------------------------------------------------------------------
(* Calls *)

Commit(d) ==
  /\ filings' = d.filings
  /\ dlq' = d.dlq
  /\ processing_results' = d.processing_results
  /\ fund_metadata' = d.fund_metadata

\* The record kept of a completed call: its name, the filing ids of the
\* add_filing calls that committed inside it, and what it was given and returned
Last(op, adds, info) == [op |-> op, adds |-> adds, info |-> info]

Idle == pc = "idle"

\* No entry is explored past n attempts
Capped(n) == \A e \in dlq' : e.attempt_count <= n

FilingIds == 1..Cardinality(Accessions)
NightMaxSizes == {30, DefaultNightMaxSize}

\* settings.determine_processing_tier(size), processor._determine_processing_tier(size)
DetermineProcessingTier(file_size_mb) ==
  /\ Idle
  /\ last' = Last("determine_processing_tier", <<>>,
                  [file_size_mb |-> file_size_mb,
                   settings_tier |-> determine_processing_tier(settings, file_size_mb),
                   processor_tier |-> _determine_processing_tier(settings, file_size_mb)])
  /\ UNCHANGED <<settings, catalog, filings, dlq, processing_results, fund_metadata, now, pc, run>>

\* db.create_or_update_filing(filing_meta)
CreateOrUpdateFiling(filing_meta, db_ok) ==
  LET u == create_or_update_filing(DB, filing_meta, db_ok)
  IN /\ Idle
     /\ Commit(u.db)
     /\ last' = Last("create_or_update_filing", <<>>,
                     [accession_number |-> filing_meta.accession_number,
                      id |-> u.id, raised |-> u.raised])
     /\ UNCHANGED <<settings, catalog, now, pc, run>>

\* dlq.add_filing(filing_id, error, file_size_mb, failure_type)
AddFiling(filing_id, file_size_mb, failure_type) ==
  LET a == add_filing(DB, filing_id, file_size_mb, failure_type, now)
  IN /\ Idle
     /\ Commit(a.db)
     /\ last' = Last("add_filing", IF a.ok THEN <<filing_id>> ELSE <<>>,
                     [filing_id |-> filing_id, ok |-> a.ok])
     /\ UNCHANGED <<settings, catalog, now, pc, run>>

\* dlq.mark_as_processed(filing_id, success)
MarkAsProcessed(filing_id, success) ==
  LET m == mark_as_processed(DB, filing_id, success, now)
  IN /\ Idle
     /\ Commit(m.db)
     /\ last' = Last("mark_as_processed", <<>>,
                     [filing_id |-> filing_id, success |-> success, ok |-> m.ok])
     /\ UNCHANGED <<settings, catalog, now, pc, run>>

\* dlq.get_night_batch(batch_size, max_file_size_mb)
GetNightBatch(batch_size, max_file_size_mb) ==
  /\ Idle
  /\ \E b \in get_night_batch(DB, batch_size, max_file_size_mb, now) :
       last' = Last("get_night_batch", <<>>,
                    [batch_size |-> batch_size, max_file_size_mb |-> max_file_size_mb,
                     result |-> b])
  /\ UNCHANGED <<settings, catalog, filings, dlq, processing_results, fund_metadata, now, pc, run>>

\* db.save_processing_result(filing_id, result, tier)
SaveProcessingResult(filing_id, result, tier, fault) ==
  LET sv == save_processing_result_call(DB, filing_id, result, tier, fault)
  IN /\ Idle
     /\ Commit(sv.db)
     /\ last' = Last("save_processing_result", <<>>,
                     [filing_id |-> filing_id, result |-> result, fault |-> fault,
                      ok |-> sv.ok, raised |-> sv.raised])
     /\ UNCHANGED <<settings, catalog, now, pc, run>>

\* processor.process_filing(filing_meta, html_content)
ProcessFiling(filing_meta, env) ==
  LET o == process_filing(DB, settings, filing_meta, env, now)
  IN /\ Idle
     /\ Commit(o.db)
     /\ last' = Last("process_filing", o.adds,
                     [filing_meta |-> filing_meta, result |-> o.result, saved |-> o.saved])
     /\ UNCHANGED <<settings, catalog, now, pc, run>>

\* processor.process_batch(batch_filings): entering the loop over a list of n metas
StartBatch(n) ==
  /\ Idle
  /\ pc' = "process_batch"
  /\ run' = [op |-> "process_batch", remaining |-> n]
  /\ last' = Last("process_batch_start", <<>>, [n |-> n])
  /\ UNCHANGED <<settings, catalog, filings, dlq, processing_results, fund_metadata, now>>

\* processor.process_batch: the iteration for the next meta of the list
BatchItem(filing_meta, download, env) ==
  LET o == process_batch_item(DB, settings, filing_meta, download, env, now)
      left == run.remaining - 1
  IN /\ pc = "process_batch"
     /\ Commit(o.db)
     /\ run' = IF left = 0 THEN [op |-> "none"] ELSE [run EXCEPT !.remaining = left]
     /\ pc' = IF left = 0 THEN "idle" ELSE "process_batch"
     /\ last' = Last("process_batch", o.adds,
                     [filing_meta |-> filing_meta, fetched |-> download # "no_url",
                      result |-> o.result, saved |-> o.saved, remaining |-> left])
     /\ UNCHANGED <<settings, catalog, now>>

\* processor.process_night_batch(batch_size): get_night_batch(batch_size) with
\* the default max_file_size_mb; an empty batch returns at once, otherwise the
\* loop over the list is entered
StartNightBatch(batch_size) ==
  /\ Idle
  /\ \E b \in get_night_batch(DB, batch_size, DefaultNightMaxSize, now) :
       /\ pc' = IF b = <<>> THEN "idle" ELSE "process_night_batch"
       /\ run' = IF b = <<>> THEN [op |-> "none"]
                 ELSE [op |-> "process_night_batch", night_batch |-> b]
       /\ last' = Last("process_night_batch_start", <<>>,
                       [batch_size |-> batch_size, processed |-> Len(b)])
  /\ UNCHANGED <<settings, catalog, filings, dlq, processing_results, fund_metadata, now>>

\* processor.process_night_batch: the iteration for the next entry of the batch
NightItem(download, env) ==
  LET filing_data == Head(run.night_batch)
      o == process_night_item(DB, filing_data, download, env, now)
      rest == Tail(run.night_batch)
  IN /\ pc = "process_night_batch"
     /\ Commit(o.db)
     /\ run' = IF rest = <<>> THEN [op |-> "none"] ELSE [run EXCEPT !.night_batch = rest]
     /\ pc' = IF rest = <<>> THEN "idle" ELSE "process_night_batch"
     /\ last' = Last("process_night_batch", <<>>,
                     [filing_data |-> filing_data, success |-> o.success,
                      saved |-> o.saved, marked |-> o.marked, remaining |-> Len(rest)])
     /\ UNCHANGED <<settings, catalog, now>>

\* main.process_filings_for_date: the discovered descriptors are filtered
\* against the accession numbers already stored; each new one is handed to
\* processor.process_filing(accession_number), a call with one argument where
\* process_filing(filing_meta, html_content) takes two: it raises TypeError
\* before the body runs, and the loop's except logs it and goes on
ProcessFilingsForDate(discovered) ==
  LET existing == {f.accession_number : f \in filings}
      new_filings == discovered \ existing
  IN /\ Idle
     /\ last' = Last("process_filings_for_date", <<>>,
                     [discovered |-> discovered, raised |-> new_filings])
     /\ UNCHANGED <<settings, catalog, filings, dlq, processing_results, fund_metadata, now, pc, run>>

\* db.cleanup_old_data(days_to_keep)
CleanupOldData(days_to_keep, fk_enforced) ==
  LET c == cleanup_old_data(DB, days_to_keep, fk_enforced)
  IN /\ Idle
     /\ Commit(c.db)
     /\ last' = Last("cleanup_old_data", <<>>,
                     [days_to_keep |-> days_to_keep, fk_enforced |-> fk_enforced,
                      ok |-> c.ok, filings |-> c.filings])
     /\ UNCHANGED <<settings, catalog, now, pc, run>>

\* The clock moves on between calls
Tick ==
  /\ Idle
  /\ now + TickHours <= MaxTicks * TickHours
  /\ now' = now + TickHours
  /\ last' = Last("tick", <<>>, [now |-> now'])
  /\ UNCHANGED <<settings, catalog, filings, dlq, processing_results, fund_metadata, pc, run>>

----------------------------------------------------------------------------
(* The orchestrator on one published filing: first-time processing *)

EmptyDb ==
  /\ filings = {}
  /\ dlq = {}
  /\ processing_results = {}
  /\ fund_metadata = {}
  /\ now = 0
  /\ pc = "idle"
  /\ run = [op |-> "none"]
  /\ last = Last("init", <<>>, [x |-> 0])

Init ==
  /\ settings = DefaultSettings
  /\ catalog \in [{"A1"} -> Sizes]
  /\ EmptyDb

Next ==
  \/ \E m \in FilingMetas, env \in ProcessEnvs :
       ProcessFiling(m, env) /\ Capped(MaxPipelineAttempts)
  \/ \E n \in 1..MaxBatch : StartBatch(n)
  \/ \E m \in FilingMetas, c \in BatchCases :
       BatchItem(m, c.download, c.env) /\ Capped(MaxPipelineAttempts)
  \/ \E id \in FilingIds :
       AddFiling(id, SizeOfFiling(id), "timeout") /\ Capped(MaxPipelineAttempts)
  \/ \E id \in FilingIds, sc \in BOOLEAN, fm \in BOOLEAN, fault \in SaveFaults :
       SaveProcessingResult(id, [kind |-> "result", success |-> sc, fund_metadata |-> fm],
                            "standard", fault)
  \/ \E ds \in SUBSET Accessions : ProcessFilingsForDate(ds)

Spec == Init /\ [][Next]_vars

----------------------------------------------------------------------------
(* The dead-letter queue alone, on one filing and every size and failure type *)

QueueInit ==
  /\ settings = DefaultSettings
  /\ catalog \in [{"A1"} -> {2}]
  /\ EmptyDb

QueueNext ==
  \/ \E m \in FilingMetas, ok \in BOOLEAN : CreateOrUpdateFiling(m, ok)
  \/ \E id \in FilingIds, sz \in QueueSizes, ft \in QueueFailureTypes :
       AddFiling(id, sz, ft) /\ Capped(MaxAttempts)
  \/ \E id \in FilingIds, sc \in BOOLEAN :
       MarkAsProcessed(id, sc) /\ Capped(MaxAttempts)
  \/ \E bs \in 1..MaxNightBatch, mx \in NightMaxSizes : GetNightBatch(bs, mx)
  \/ Tick

QueueSpec == QueueInit /\ [][QueueNext]_vars

----------------------------------------------------------------------------
(* The night query on two queued filings *)

QueryInit ==
  /\ settings = DefaultSettings
  /\ catalog \in [{"A1", "A2"} -> {2}]
  /\ EmptyDb

QueryNext ==
  \/ \E m \in FilingMetas : CreateOrUpdateFiling(m, TRUE)
  \/ \E id \in FilingIds, sz \in NightSizes :
       AddFiling(id, sz, "network") /\ Capped(MaxNightAttempts)
  \/ \E bs \in 1..MaxNightBatch, mx \in NightMaxSizes : GetNightBatch(bs, mx)
  \/ Tick

QuerySpec == QueryInit /\ [][QueryNext]_vars

----------------------------------------------------------------------------
(* The night batch on one queued filing *)

NightInit ==
  /\ settings = DefaultSettings
  /\ catalog \in [{"A1"} -> NightSizes]
  /\ EmptyDb

NightNext ==
  \/ \E m \in FilingMetas : CreateOrUpdateFiling(m, TRUE)
  \/ \E id \in FilingIds, ft \in NightFailureTypes :
       AddFiling(id, SizeOfFiling(id), ft) /\ Capped(MaxNightAttempts)
  \/ \E bs \in 1..MaxNightBatch : StartNightBatch(bs)
  \/ \E c \in NightCases : NightItem(c.download, c.env) /\ Capped(MaxNightAttempts)
  \/ \E id \in FilingIds, sc \in BOOLEAN :
       MarkAsProcessed(id, sc) /\ Capped(MaxNightAttempts)
  \/ Tick

NightSpec == NightInit /\ [][NightNext]_vars

----------------------------------------------------------------------------
(* The night batch run again and again on one queued filing *)

\* One failure puts the filing in the queue and no other failure arrives;
\* from then on only the night batch and the clock act
NightFairNext ==
  \/ \E m \in FilingMetas : CreateOrUpdateFiling(m, TRUE)
  \/ /\ dlq = {}
     /\ \E id \in FilingIds, ft \in NightFailureTypes :
          AddFiling(id, SizeOfFiling(id), ft)
  \/ \E bs \in 1..MaxNightBatch : StartNightBatch(bs)
  \/ \E c \in NightCases : NightItem(c.download, c.env)
  \/ Tick

\* The scheduler starts the night batch again and again, a started batch runs
\* through its entries, and time advances
NightFairness ==
  /\ WF_vars(\E bs \in 1..MaxNightBatch : StartNightBatch(bs))
  /\ WF_vars(\E c \in NightCases : NightItem(c.download, c.env))
  /\ WF_vars(Tick)

NightFairSpec == NightInit /\ [][NightFairNext]_vars /\ NightFairness

----------------------------------------------------------------------------
(* Night-batch recovery: a 2 MB filing and a 30 MB filing in the queue *)

\* The small filing failed on the network (priority 4), the other one by
\* timeout (priority 1)
RecoveryFailure(id) == IF SizeOfFiling(id) < 5 THEN "network" ELSE "timeout"

RecoveryInit ==
  /\ settings = DefaultSettings
  /\ catalog = [a \in {"A1", "A2"} |-> IF a = "A1" THEN 2 ELSE 30]
  /\ EmptyDb

RecoveryNext ==
  \/ \E m \in FilingMetas : CreateOrUpdateFiling(m, TRUE)
  \/ \E id \in FilingIds :
       AddFiling(id, SizeOfFiling(id), RecoveryFailure(id)) /\ Capped(MaxNightAttempts)
  \/ \E bs \in 1..MaxNightBatch : StartNightBatch(bs)
  \/ \E c \in NightCases : NightItem(c.download, c.env) /\ Capped(MaxNightAttempts)
  \/ Tick

RecoverySpec == RecoveryInit /\ [][RecoveryNext]_vars

----------------------------------------------------------------------------
(* Retention: processing, queueing and the cleanup of old rows *)

CleanupInit ==
  /\ settings = DefaultSettings
  /\ catalog \in [{"A1"} -> Sizes]
  /\ EmptyDb

CleanupNext ==
  \/ \E m \in FilingMetas, env \in ProcessEnvs :
       ProcessFiling(m, env) /\ Capped(MaxPipelineAttempts)
  \/ \E id \in FilingIds :
       AddFiling(id, SizeOfFiling(id), "timeout") /\ Capped(MaxPipelineAttempts)
  \/ \E days \in DaysToKeep, fk \in BOOLEAN : CleanupOldData(days, fk)

CleanupSpec == CleanupInit /\ [][CleanupNext]_vars

----------------------------------------------------------------------------
(* The HTTP client: one fetch, attempt by attempt *)

\* What session.get followed by raise_for_status can do: return the response,
\* or raise a requests.RequestException (HTTP 5xx, connection reset, timeout)
Responses == {"ok", "503", "connection", "timeout"}

\* The retries argument of get / get_text
Retries == 1..MaxRetries

\* SECHTTPClient.get(url, retries) and SECHTTPClient.get_text(url, retries):
\* the call enters the loop "for attempt in range(retries)"
HttpStart(method, retries) ==
  /\ Idle
  /\ pc' = "http"
  /\ run' = [op |-> method, retries |-> retries, attempt |-> 0,
             responses |-> <<>>, slept |-> <<>>]
  /\ last' = Last("http_start", <<>>, [method |-> method, retries |-> retries])
  /\ UNCHANGED <<settings, catalog, filings, dlq, processing_results, fund_metadata, now>>

\* The value the call hands back and how it ends
http_result(method, retries, responses, slept, outcome) ==
  [method |-> method, retries |-> retries, responses |-> responses,
   slept |-> slept, outcome |-> outcome]

\* One iteration of the loop: the request succeeds and the call returns the
\* response (get) or its text (get_text); or it fails, and on the last
\* iteration get re-raises the RequestException while get_text returns "",
\* otherwise the loop sleeps 2 ** attempt seconds and goes on
HttpAttempt(response) ==
  LET responses == Append(run.responses, response)
      final == run.attempt = run.retries - 1
      slept == Append(run.slept, Pow2(run.attempt))
      done(outcome) ==
        /\ pc' = "idle"
        /\ run' = [op |-> "none"]
        /\ last' = Last(run.op, <<>>,
                        http_result(run.op, run.retries, responses, run.slept, outcome))
  IN /\ pc = "http"
     /\ IF response = "ok" THEN done("body")
        ELSE IF final THEN done(IF run.op = "get" THEN "raised" ELSE "empty")
        ELSE /\ pc' = "http"
             /\ run' = [run EXCEPT !.attempt = run.attempt + 1,
                                   !.responses = responses, !.slept = slept]
             /\ last' = Last("http_retry", <<>>,
                             [attempt |-> run.attempt + 1, response |-> response])
     /\ UNCHANGED <<settings, catalog, filings, dlq, processing_results, fund_metadata, now>>

HttpInit ==
  /\ settings = DefaultSettings
  /\ catalog \in [{"A1"} -> {2}]
  /\ EmptyDb

HttpNext ==
  \/ \E method \in {"get", "get_text"}, retries \in Retries : HttpStart(method, retries)
  \/ \E response \in Responses : HttpAttempt(response)

HttpSpec == HttpInit /\ [][HttpNext]_vars

----------------------------------------------------------------------------
(* The rate limiter: concurrent callers of SECHTTPClient._rate_limit *)

\* The callers of the process: the discovery feed and two downloads
Callers == {"feed", "download1", "download2"}

\* The SECHTTPClient a caller goes through: DailyFeed() builds a client of its
\* own when none is passed (main.py passes none), the downloads of the
\* processor use the module instance http_client
client_of(caller) == IF caller = "feed" THEN "feed_client" ELSE "http_client"

Clients == {client_of(c) : c \in Callers}

\* SECHTTPClient.__init__ for every client, and the callers at rest.  The
\* clock is time.time(), far from the initial last_request_time 0.
RateStart ==
  /\ Idle
  /\ last.op = "init"
  /\ pc' = "rate_limit"
  /\ run' = [op |-> "rate_limit",
             clock |-> DefaultRateLimitDelay,
             last_request_time |-> [c \in Clients |-> 0],
             lock |-> [c \in Clients |-> "free"],
             th |-> [c \in Callers |-> [pc |-> "idle", wake |-> 0, requests |-> 0]],
             prev_start |-> NoTime]
  /\ last' = Last("rate_start", <<>>, [x |-> 0])
  /\ UNCHANGED <<settings, catalog, filings, dlq, processing_results, fund_metadata, now>>

\* "with self.lock:" of the caller's client
RateAcquire(caller) ==
  /\ pc = "rate_limit"
  /\ run.th[caller].pc = "idle"
  /\ run.th[caller].requests < MaxRequests
  /\ run.lock[client_of(caller)] = "free"
  /\ run' = [run EXCEPT !.lock[client_of(caller)] = caller,
                        !.th[caller].pc = "locked"]
  /\ UNCHANGED <<settings, catalog, filings, dlq, processing_results, fund_metadata,
                 now, pc, last>>

\* current_time = time.time(); the test against settings.rate_limit_delay and
\* the start of time.sleep, the lock held
RateCheck(caller) ==
  LET since == run.clock - run.last_request_time[client_of(caller)]
  IN /\ pc = "rate_limit"
     /\ run.th[caller].pc = "locked"
     /\ run' = IF since < DefaultRateLimitDelay
               THEN [run EXCEPT !.th[caller].pc = "sleeping",
                                !.th[caller].wake = run.clock + (DefaultRateLimitDelay - since)]
               ELSE [run EXCEPT !.th[caller].pc = "stamp"]
     /\ UNCHANGED <<settings, catalog, filings, dlq, processing_results, fund_metadata,
                    now, pc, last>>

\* time.sleep returns, not before the time asked for
RateWake(caller) ==
  /\ pc = "rate_limit"
  /\ run.th[caller].pc = "sleeping"
  /\ run.clock >= run.th[caller].wake
  /\ run' = [run EXCEPT !.th[caller].pc = "stamp"]
  /\ UNCHANGED <<settings, catalog, filings, dlq, processing_results, fund_metadata,
                 now, pc, last>>

\* self.last_request_time = time.time(), and the lock is released
RateStamp(caller) ==
  /\ pc = "rate_limit"
  /\ run.th[caller].pc = "stamp"
  /\ run' = [run EXCEPT !.last_request_time[client_of(caller)] = run.clock,
                        !.lock[client_of(caller)] = "free",
                        !.th[caller].pc = "send"]
  /\ UNCHANGED <<settings, catalog, filings, dlq, processing_results, fund_metadata,
                 now, pc, last>>

\* self.session.get(url, timeout=30): the request goes out
RateSend(caller) ==
  /\ pc = "rate_limit"
  /\ run.th[caller].pc = "send"
  /\ run' = [run EXCEPT !.th[caller].pc = "idle",
                        !.th[caller].requests = run.th[caller].requests + 1,
                        !.prev_start = run.clock]
  /\ last' = Last("request", <<>>,
                  [caller |-> caller, client |-> client_of(caller),
                   time |-> run.clock, prev_start |-> run.prev_start])
  /\ UNCHANGED <<settings, catalog, filings, dlq, processing_results, fund_metadata,
                 now, pc>>

\* Time passes
RateTick ==
  /\ pc = "rate_limit"
  /\ run.clock < MaxClock
  /\ run' = [run EXCEPT !.clock = run.clock + 1]
  /\ UNCHANGED <<settings, catalog, filings, dlq, processing_results, fund_metadata,
                 now, pc, last>>

RateInit ==
  /\ settings = DefaultSettings
  /\ catalog \in [{"A1"} -> {2}]
  /\ EmptyDb

RateNext ==
  \/ RateStart
  \/ \E c \in Callers : RateAcquire(c)
  \/ \E c \in Callers : RateCheck(c)
  \/ \E c \in Callers : RateWake(c)
  \/ \E c \in Callers : RateStamp(c)
  \/ \E c \in Callers : RateSend(c)
  \/ RateTick

RateSpec == RateInit /\ [][RateNext]_vars

----------------------------------------------------------------------------
(* The integrated parser *)

\* What the library under SGMLParser does with a content: returns the header
\* and a list of document bodies, returns an empty list, raises an exception,
\* or runs out of memory
SgmlLib == {"bodies", "no_bodies", "error", "memory"}

\* What the library under XBRLParser does with a content it is handed
XbrlLib == {"facts", "error", "memory"}

\* A filing content, by what the parsers look at: the SGML markers, the XBRL
\* markers, and what the two libraries do with it
Contents ==
  [sgml_markers : BOOLEAN, xbrl_markers : BOOLEAN, sgml_lib : SgmlLib, xbrl_lib : XbrlLib]

\* FilingParser.__init__: the sub-parsers that are enabled and installed; with
\* none the constructor raises
FilingParsers ==
  {fp \in [enable_sgml : BOOLEAN, enable_xbrl : BOOLEAN] : fp.enable_sgml \/ fp.enable_xbrl}

\* SGMLParser.parse: ParseError without the markers, and every exception of
\* the library, MemoryError included, is caught by "except Exception" and
\* turned into a failed result
SGMLParser_parse(content) ==
  [parser |-> "sgml",
   success |-> content.sgml_markers /\ content.sgml_lib \in {"bodies", "no_bodies"},
   xbrl_content |-> content.sgml_markers /\ content.sgml_lib = "bodies"]

\* XBRLParser.parse, likewise
XBRLParser_parse(content) ==
  [parser |-> "xbrl",
   success |-> content.xbrl_markers /\ content.xbrl_lib = "facts",
   xbrl_content |-> FALSE]

\* FilingParser.is_compatible
is_compatible(fp, content) ==
  \/ fp.enable_sgml /\ content.sgml_markers
  \/ fp.enable_xbrl /\ content.xbrl_markers

\* FilingParser.determine_parser_strategy
determine_parser_strategy(fp, content) ==
  LET use_sgml == fp.enable_sgml /\ content.sgml_markers
      use_xbrl == fp.enable_xbrl /\ content.xbrl_markers
  IN [use_sgml |-> use_sgml,
      use_xbrl |-> use_xbrl,
      primary_parser |-> IF use_sgml THEN "sgml" ELSE IF use_xbrl THEN "xbrl" ELSE "none"]

\* FilingParser._extract_xbrl_content: TRUE when there is a text to hand to
\* the XBRL parser.  With the SGML parser in use that is the join of the
\* bodies a second SGML parse returns; alone, the content itself.
_extract_xbrl_content(content, strategy) ==
  IF strategy.use_sgml /\ SGMLParser_parse(content).success
                      /\ SGMLParser_parse(content).xbrl_content
  THEN TRUE
  ELSE strategy.use_xbrl /\ ~strategy.use_sgml

\* FilingParser.parse
FilingParser_parse(fp, content) ==
  LET strategy == determine_parser_strategy(fp, content)
      sgml == IF strategy.use_sgml THEN <<SGMLParser_parse(content)>> ELSE <<>>
      extract == strategy.use_xbrl /\ _extract_xbrl_content(content, strategy)
      xbrl == IF extract THEN <<XBRLParser_parse(content)>> ELSE <<>>
      results == sgml \o xbrl
      success == \E i \in 1..Len(results) : results[i].success
      failed == \E i \in 1..Len(results) : ~results[i].success
      ran == sgml
             \o (IF strategy.use_xbrl /\ strategy.use_sgml THEN <<"sgml">> ELSE <<>>)
             \o xbrl
  IN IF ~is_compatible(fp, content)
     THEN [success |-> FALSE, error_message |-> "not_compatible",
           strategy |-> [use_sgml |-> FALSE, use_xbrl |-> FALSE, primary_parser |-> "none"],
           individual_results |-> <<>>, ran |-> 0, raised |-> "none"]
     ELSE [success |-> success,
           error_message |-> IF failed THEN "sub_parser" ELSE "none",
           strategy |-> strategy,
           individual_results |-> [i \in 1..Len(results) |->
                                     [parser |-> results[i].parser,
                                      success |-> results[i].success]],
           ran |-> Len(ran), raised |-> "none"]

\* filing_parser.parse(content)
FilingParserParse(fp, content) ==
  /\ Idle
  /\ last' = Last("parse", <<>>,
                  [parser |-> fp, content |-> content,
                   result |-> FilingParser_parse(fp, content)])
  /\ UNCHANGED <<settings, catalog, filings, dlq, processing_results, fund_metadata,
                 now, pc, run>>

\* ParserManager._init_parsers: the FilingParser it could build, or none when
\* the constructor raised
NoParser == [enable_sgml |-> FALSE, enable_xbrl |-> FALSE]

ParserManagers == FilingParsers \cup {NoParser}

\* ParserManager.is_available
is_available(pm) == pm # NoParser

\* A page as the legacy extraction sees it: the number of its tables,
\* whether fund metadata is found in it, and what building its soup does
TableCounts == {0, 3, MaxTables}

Pages == [tables : TableCounts, fund_meta : BOOLEAN, soup : {"ok", "error", "memory"}]

\* ParserManager._fallback_extraction
_fallback_extraction(tier) ==
  [success |-> TRUE, error |-> "none", error_type |-> "none", fund_metadata |-> FALSE,
   tables |-> 0, extraction_method |-> "fallback", raised |-> "none"]

\* ParserManager._convert_to_legacy_format: the metadata is that of the
\* sub-parsers that succeeded, and the tables are always the empty list
_convert_to_legacy_format(parsing_result, tier) ==
  [success |-> parsing_result.success,
   error |-> parsing_result.error_message,
   error_type |-> IF parsing_result.success THEN "none" ELSE "parsing",
   fund_metadata |-> parsing_result.success,
   tables |-> 0, extraction_method |-> "integrated", raised |-> "none"]

\* ParserManager.parse_filing_content
parse_filing_content(pm, content, tier) ==
  IF ~is_available(pm)
  THEN _fallback_extraction(tier)
  ELSE _convert_to_legacy_format(FilingParser_parse(pm, content), tier)

\* TieredProcessor._legacy_extraction_logic: nothing is caught around the
\* soup; the tables kept depend on the tier
_legacy_extraction_logic(page, tier) ==
  IF page.soup # "ok"
  THEN [success |-> FALSE, error |-> "none", error_type |-> "none",
        fund_metadata |-> FALSE, tables |-> 0, extraction_method |-> "legacy",
        raised |-> page.soup]
  ELSE [success |-> TRUE, error |-> "none", error_type |-> "none",
        fund_metadata |-> page.fund_meta,
        tables |-> IF tier = "standard" THEN page.tables
                   ELSE IF tier = "limited" THEN Min(page.tables, LimitedTables)
                   ELSE 0,
        extraction_method |-> "legacy", raised |-> "none"]

\* TieredProcessor._hybrid_extraction_logic
_hybrid_extraction_logic(pm, content, page, tier) ==
  IF is_available(pm)
  THEN parse_filing_content(pm, content, tier)
  ELSE _legacy_extraction_logic(page, tier)

\* parser_manager.parse_filing_content(html_content, filing_meta, tier)
ParseFilingContent(pm, content, tier) ==
  /\ Idle
  /\ last' = Last("parse_filing_content", <<>>,
                  [parser |-> pm, content |-> content, tier |-> tier,
                   result |-> parse_filing_content(pm, content, tier)])
  /\ UNCHANGED <<settings, catalog, filings, dlq, processing_results, fund_metadata,
                 now, pc, run>>

\* self._hybrid_extraction_logic(html_content, filing_meta, tier)
HybridExtractionLogic(pm, content, page, tier) ==
  /\ Idle
  /\ last' = Last("extract", <<>>,
                  [parser |-> pm, content |-> content, page |-> page, tier |-> tier,
                   result |-> _hybrid_extraction_logic(pm, content, page, tier)])
  /\ UNCHANGED <<settings, catalog, filings, dlq, processing_results, fund_metadata,
                 now, pc, run>>

ParserInit ==
  /\ settings = DefaultSettings
  /\ catalog \in [{"A1"} -> {2}]
  /\ EmptyDb

\* The parsers keep no state from one call to the next, so every call is
\* taken on the state after construction
ParserNext ==
  \/ /\ last.op = "init"
     /\ \E fp \in FilingParsers, content \in Contents : FilingParserParse(fp, content)
  \/ /\ last.op = "init"
     /\ \E pm \in ParserManagers, content \in Contents, tier \in Tiers :
          ParseFilingContent(pm, content, tier)
  \/ /\ last.op = "init"
     /\ \E pm \in ParserManagers, content \in Contents, page \in Pages, tier \in Tiers :
          HybridExtractionLogic(pm, content, page, tier)

ParserSpec == ParserInit /\ [][ParserNext]_vars

----------------------------------------------------------------------------
(* Settings initialisation *)

\* The values the environment can give a threshold
EnvValues == ThresholdValues \cup {0}

\* The required variables the module-level Settings() reads from the
\* environment, set or not
Environments ==
  [database_url : BOOLEAN, sec_api_user_agent : BOOLEAN]

\* Settings.__post_init__ on the fields the dataclass has just assigned:
\* it returns, or raises ValueError and the module-level name settings is
\* never bound, so that nothing importing it can run
SettingsPostInit ==
  LET ok == run.database_url /\ run.sec_api_user_agent /\ post_init_ok(settings)
  IN /\ pc = "post_init"
     /\ pc' = IF ok THEN "idle" ELSE "import_error"
     /\ last' = Last("post_init", <<>>, [ok |-> ok, env |-> run])
     /\ run' = [op |-> "none"]
     /\ UNCHANGED <<settings, catalog, filings, dlq, processing_results, fund_metadata, now>>

SettingsInit ==
  /\ settings \in [SMALL_FILE_THRESHOLD : EnvValues,
                    MEDIUM_FILE_THRESHOLD : EnvValues,
                    LARGE_FILE_THRESHOLD : EnvValues]
  /\ catalog \in [{"A1"} -> {2}]
  /\ filings = {} /\ dlq = {} /\ processing_results = {} /\ fund_metadata = {}
  /\ now = 0
  /\ pc = "post_init"
  /\ run \in {[op |-> "Settings", database_url |-> e.database_url,
                sec_api_user_agent |-> e.sec_api_user_agent] : e \in Environments}
  /\ last = Last("init", <<>>, [x |-> 0])

SettingsNext ==
  \/ SettingsPostInit
  \/ \E sz \in 0..MaxSize : DetermineProcessingTier(sz)

SettingsSpec == SettingsInit /\ [][SettingsNext]_vars

----------------------------------------------------------------------------
(* The tier router under every valid configuration *)

\* Settings(): the thresholds come from the environment, and __post_init__
\* raises unless they are ascending
TierInit ==
  /\ settings \in {s \in [SMALL_FILE_THRESHOLD : ThresholdValues,
                          MEDIUM_FILE_THRESHOLD : ThresholdValues,
                          LARGE_FILE_THRESHOLD : ThresholdValues] : post_init_ok(s)}
  /\ catalog \in [{"A1"} -> {2}]
  /\ EmptyDb

TierNext == \E sz \in 0..MaxSize : DetermineProcessingTier(sz)

TierSpec == TierInit /\ [][TierNext]_vars
----------------------------------------------------------------------------
(* Claims *)

\* The contract of the tier router over thresholds T_small < T_medium < T_large
tier_for(s, size_mb) ==
  IF size_mb <= s.SMALL_FILE_THRESHOLD THEN "standard"
  ELSE IF size_mb <= s.MEDIUM_FILE_THRESHOLD THEN "limited"
  ELSE IF size_mb <= s.LARGE_FILE_THRESHOLD THEN "minimal"
  ELSE "dead_letter"

\* C1: for every non-negative size and ascending thresholds, both routers
\* (TieredProcessor._determine_processing_tier, Settings.determine_processing_tier)
\* return standard up to T_small, limited up to T_medium, minimal up to T_large
\* and dead_letter above; with the defaults the sizes 10, 50 and 100 map to
\* standard, limited and minimal.
C1_TierRouter ==
  last.op = "determine_processing_tier" =>
    /\ last.info.processor_tier = tier_for(settings, last.info.file_size_mb)
    /\ last.info.settings_tier = tier_for(settings, last.info.file_size_mb)
    /\ settings = DefaultSettings =>
         /\ last.info.file_size_mb = 10 => last.info.processor_tier = "standard"
         /\ last.info.file_size_mb = 50 => last.info.processor_tier = "limited"
         /\ last.info.file_size_mb = 100 => last.info.processor_tier = "minimal"

\* A size exactly on the default medium threshold has been routed
C1_Witness ==
  /\ last.op = "determine_processing_tier"
  /\ settings = DefaultSettings
  /\ last.info.file_size_mb = DefaultMedium
  /\ last.info.processor_tier = "limited"
  /\ last.info.settings_tier = "limited"

\* The eligibility function as the specification lists it
eligible(attempts, size_mb, failure_type) ==
  ~ \/ attempts >= 5
    \/ size_mb > 100
    \/ size_mb > 50 /\ attempts >= 2
    \/ failure_type = "memory" /\ size_mb > 25
    \/ failure_type = "parsing" /\ attempts >= 3

\* C2: after any sequence of add_filing and mark_as_processed(success=false)
\* calls, every entry's retry_eligible flag equals the eligibility function of
\* the entry's current attempt_count, file_size_mb and failure_type.
C2_EligibilityFlag ==
  \A e \in dlq :
    e.retry_eligible = eligible(e.attempt_count, e.file_size_mb, e.failure_type)

\* A failed mark_as_processed has returned for an entry that three parsing
\* failures made ineligible
C2_Witness ==
  /\ last.op = "mark_as_processed"
  /\ ~last.info.success
  /\ \E e \in dlq :
       /\ e.filing_id = last.info.filing_id
       /\ e.failure_type = "parsing"
       /\ e.attempt_count = 3
       /\ ~e.retry_eligible

\* The conditions of the night query as the specification lists them
night_ready(e, max_size_mb) ==
  /\ e.retry_eligible
  /\ e.next_retry # NoTime
  /\ e.next_retry <= now
  /\ e.attempt_count < DefaultMaxAttempts
  /\ e.file_size_mb <= max_size_mb

\* The rank of an entry: the smaller key comes first
rank_key(e) == <<0 - e.priority, e.file_size_mb, e.attempt_count, e.created_at>>

ranked_before(k1, k2) ==
  \E i \in 1..4 : k1[i] < k2[i] /\ \A j \in 1..(i - 1) : k1[j] = k2[j]

backoff_hours(n) == Min(24 * 2 ^ (n - 1), 192)

filings_of(filing_meta) ==
  {f \in filings : f.accession_number = filing_meta.accession_number}

\* An error was met while the item was handled: an exception reached a handler
\* of process_filing or of process_batch, the download failed, or the result
\* of a successful parse could not be saved
errored(info) ==
  \/ info.result.error_type \in {"processing", "timeout", "memory", "exception", "download"}
  \/ info.result.success /\ ~info.saved

\* C8: during per-date and batch processing an error met while handling one
\* filing never aborts the loop: the failing filing is recorded in the
\* dead-letter queue with a failure_type and the remaining filings of the list
\* are still processed.
C8_FaultBoundary ==
  /\ last.op = "process_batch" =>
       /\ last.info.remaining > 0 => pc = "process_batch"
       /\ errored(last.info) =>
            /\ last.adds # <<>>
            /\ \A i \in 1..Len(last.adds) :
                 \E f \in filings_of(last.info.filing_meta), e \in dlq :
                   /\ f.id = last.adds[i]
                   /\ e.filing_id = f.id
                   /\ e.failure_type \in FailureTypes
  /\ last.op = "process_filings_for_date" =>
       \A a \in last.info.raised :
         \E f \in filings, e \in dlq : f.accession_number = a /\ e.filing_id = f.id

C10_OversizeStraightToQueue ==
  (/\ last.op \in {"process_filing", "process_batch"}
   /\ last.info.filing_meta.file_size_mb > settings.LARGE_FILE_THRESHOLD) =>
    /\ last.op = "process_batch" => ~last.info.fetched
    /\ \A f \in filings_of(last.info.filing_meta) :
         /\ f.processing_status = "dead_letter"
         /\ Cardinality({e \in dlq : e.filing_id = f.id}) = 1
         /\ \A e \in dlq :
              e.filing_id = f.id =>
                /\ e.failure_type = "file_too_large"
                /\ ~e.retry_eligible
                /\ e.next_retry = NoTime
         /\ \A b \in get_night_batch(DB, MaxNightBatch, f.file_size_mb, now) :
              \A i \in 1..Len(b) : b[i].filing_id # f.id

C13_SaveAllOrNothing ==
  [][(/\ last'.op = "save_processing_result"
      /\ \E f \in filings : f.id = last'.info.filing_id
      /\ \/ last'.info.fault # "none"
         \/ ~last'.info.ok) =>
       /\ filings' = filings
       /\ fund_metadata' = fund_metadata
       /\ processing_results' = processing_results
       /\ ~last'.info.ok
       /\ ~last'.info.raised]_vars

C15_RerunIsNoOp ==
  [][/\ (/\ last'.op = "process_filings_for_date"
         /\ last'.info.discovered \subseteq {f.accession_number : f \in filings}) =>
          /\ filings' = filings
          /\ dlq' = dlq
          /\ processing_results' = processing_results
          /\ fund_metadata' = fund_metadata
     /\ \A f1, f2 \in filings' :
          f1.accession_number = f2.accession_number => f1 = f2]_vars

C15_Witness ==
  /\ last.op = "process_filings_for_date"
  /\ last.info.discovered # {}
  /\ last.info.discovered \subseteq {f.accession_number : f \in filings}
  /\ \E f \in filings : \E e \in dlq : e.filing_id = f.id

\* The position of a status on the path pending, processing, then one of
\* completed / failed / dead_letter
status_rank(status) ==
  IF status = "pending" THEN 0 ELSE IF status = "processing" THEN 1 ELSE 2

entry_of(q, filing_id) == CHOOSE e \in q : e.filing_id = filing_id

\* A retry of an eligible entry that failed: mark_as_processed(id, False),
\* called directly or by the night batch
failed_retry(op, info, q) ==
  \/ /\ op = "mark_as_processed"
     /\ ~info.success
     /\ \E e \in q : e.filing_id = info.filing_id /\ e.retry_eligible
  \/ /\ op = "process_night_batch"
     /\ ~info.success

\* The filing a retry was about
retried(op, info) ==
  IF op = "mark_as_processed" THEN info.filing_id ELSE info.filing_data.filing_id

\* Every retry-eligible entry carries the suggestion for its own fields
suggestions_current(q) ==
  \A e \in q : e.retry_eligible =>
    e.suggested_tier = _suggest_tier(e.attempt_count, e.file_size_mb, e.failure_type)

priority_rule(file_size_mb, failure_type) ==
  LET by_size == IF file_size_mb < 5 THEN 2 ELSE IF file_size_mb < 15 THEN 1 ELSE 0
      by_type == IF failure_type \in {"network", "temporary"} THEN 1
                 ELSE IF failure_type \in {"memory", "timeout"} THEN -1 ELSE 0
  IN Max(1, Min(5, 1 + by_size + by_type))

C21_BoundedRetries ==
  (last.op \in {"get", "get_text"} /\ last.info.retries = DefaultRetries) =>
    LET r == last.info.responses
        n == Len(r)
    IN /\ n <= 1 + DefaultRetries
       /\ dlq = {}
       /\ r[n] = "ok" <=> last.info.outcome = "body"
       /\ r = <<"503", "503", "ok">> => last.info.slept = <<1, 2>>
       /\ r[n] # "ok" =>
            /\ last.info.outcome = "raised"
            /\ last.info.slept = <<1, 2, 4>>

\* C22: for any interleaving of concurrent callers, discovery feed and
\* downloads alike, two consecutive HTTP requests start at least
\* rate_limit_delay apart: the limiter is process-wide.
C22_ProcessWideRateLimit ==
  (last.op = "request" /\ last.info.prev_start # NoTime) =>
    last.info.time - last.info.prev_start >= DefaultRateLimitDelay

\* The parser of the application: both sub-parsers enabled
both_enabled(fp) == fp.enable_sgml /\ fp.enable_xbrl

\* C23: FilingParser selects its strategy from the content markers alone:
\* SGML markers only gives the SGML parser alone, XBRL markers only the XBRL
\* parser alone, both give the hybrid strategy with primary parser sgml, the
\* SGML parser run first and then the XBRL parser, both in the individual
\* results; neither gives a rejected parse (success = false, not-compatible
\* error) with no sub-parser run.
C23_StrategyFromMarkers ==
  (last.op = "parse" /\ both_enabled(last.info.parser)) =>
    LET c == last.info.content
        r == last.info.result
        parsers == [i \in 1..Len(r.individual_results) |-> r.individual_results[i].parser]
    IN /\ (c.sgml_markers /\ ~c.xbrl_markers) =>
            /\ r.strategy = [use_sgml |-> TRUE, use_xbrl |-> FALSE, primary_parser |-> "sgml"]
            /\ parsers = <<"sgml">>
       /\ (~c.sgml_markers /\ c.xbrl_markers) =>
            /\ r.strategy = [use_sgml |-> FALSE, use_xbrl |-> TRUE, primary_parser |-> "xbrl"]
            /\ parsers = <<"xbrl">>
       /\ (c.sgml_markers /\ c.xbrl_markers) =>
            /\ r.strategy = [use_sgml |-> TRUE, use_xbrl |-> TRUE, primary_parser |-> "sgml"]
            /\ parsers = <<"sgml", "xbrl">>
       /\ (~c.sgml_markers /\ ~c.xbrl_markers) =>
            /\ ~r.success
            /\ r.error_message = "not_compatible"
            /\ r.ran = 0

\* A sub-parser that is run on the content runs out of memory
out_of_memory(fp, content) ==
  LET strategy == determine_parser_strategy(fp, content)
  IN \/ strategy.use_sgml /\ content.sgml_lib = "memory"
     \/ /\ strategy.use_xbrl
        /\ _extract_xbrl_content(content, strategy)
        /\ content.xbrl_lib = "memory"

\* The error message of a result of either entry point
error_of(op, result) == IF op = "parse" THEN result.error_message ELSE result.error

\* C24: no sub-parser or pipeline error propagates out of FilingParser.parse
\* or ParserManager.parse_filing_content: a failure gives a result with
\* success = false and a populated error message; the single exception is a
\* sub-parser running out of memory, which is re-raised as a memory error.
C24_ParserErrorsContained ==
  (last.op \in {"parse", "parse_filing_content"} /\ is_available(last.info.parser)) =>
    LET r == last.info.result
    IN IF out_of_memory(last.info.parser, last.info.content)
       THEN r.raised = "memory"
       ELSE /\ r.raised = "none"
            /\ ~r.success => error_of(last.op, r) # "none"

\* The tables the tier lets through, of tables_found in document order
tables_kept(tier, tables_found) ==
  IF tier = "standard" THEN tables_found
  ELSE IF tier = "limited" THEN Min(tables_found, 10)
  ELSE 0

\* C25: tier gating bounds the extracted output: of the tables of the page,
\* a successful extraction keeps all under the standard tier, the first 10
\* under the limited tier, and none under the minimal tier.
C25_TierGating ==
  (last.op = "extract" /\ last.info.result.raised = "none" /\ last.info.result.success) =>
    last.info.result.tables = tables_kept(last.info.tier, last.info.page.tables)

\* The thresholds are strictly ascending above zero
strictly_ascending(s) ==
  /\ 0 < s.SMALL_FILE_THRESHOLD
  /\ s.SMALL_FILE_THRESHOLD < s.MEDIUM_FILE_THRESHOLD
  /\ s.MEDIUM_FILE_THRESHOLD < s.LARGE_FILE_THRESHOLD

\* C26: Settings initialisation succeeds only when the size thresholds are
\* strictly ascending above zero; with any other triple it fails, and no
\* tier routing is ever performed with those thresholds.
C26_ThresholdsValidated ==
  /\ (last.op = "post_init" /\ last.info.ok) => strictly_ascending(settings)
  /\ (last.op = "post_init" /\ ~strictly_ascending(settings)) => pc = "import_error"
  /\ last.op = "determine_processing_tier" => strictly_ascending(settings)

\* Initialisation has failed on equal small and medium thresholds, the
\* required variables being set
C26_Witness ==
  /\ last.op = "post_init"
  /\ ~last.info.ok
  /\ last.info.env.database_url /\ last.info.env.sec_api_user_agent
  /\ settings.SMALL_FILE_THRESHOLD = settings.MEDIUM_FILE_THRESHOLD
  /\ 0 < settings.SMALL_FILE_THRESHOLD
  /\ settings.MEDIUM_FILE_THRESHOLD < settings.LARGE_FILE_THRESHOLD

\* The filing has a row in the dead-letter queue
queued(f) == \E e \in dlq : e.filing_id = f.id

retry_time_rule ==
  \A e \in dlq : /\ e.next_retry = NoTime <=> ~e.retry_eligible
                 /\ e.attempt_count >= 5 => ~e.retry_eligible

\* get_night_batch has not returned an entry with five attempts or more
night_batch_rule ==
  /\ last.op = "get_night_batch" =>
       \A i \in 1..Len(last.info.result) : last.info.result[i].attempt_count < 5
  /\ last.op = "process_night_batch" => last.info.filing_data.attempt_count < 5

====
